---- MODULE Spec2Model ----
(***************************************************************************)
(* Quiz mini-app: the client state machine of backend/frontend/app.js      *)
(* (init, startQuiz, selectAnswer, the countdown, finishQuiz), the catalog *)
(* route of the express server and the Result Store behind check-user and  *)
(* submit.                                                                 *)
(*                                                                         *)
(* One page (one "session") is alive at a time; Reload opens the next one. *)
(* Time is counted in whole seconds since the page was loaded, and every   *)
(* run of an interval callback takes the clock one second further.  A step *)
(* of the countdown stands for k consecutive runs of the callback with     *)
(* nothing else handled in between (k = TickBatch, or what is left of the  *)
(* countdown); the callbacks before the last one only decrement.           *)
(***************************************************************************)
EXTENDS Integers, Sequences, FiniteSets, TLC

\* ---------------------------------------------------------------- bounds
MaxStarts   == 2     \* startQuiz invocations awaiting the catalog at a time
MaxFinish   == 2     \* finishQuiz invocations per session
MaxStored   == 2     \* records in the store up to which the page is opened again
TickBatch   == 450   \* interval callbacks folded into one Tick step
MaxLen      == 3     \* length of an array handed to shuffleArray on its own
MaxId       == 7     \* question identifiers 1..MaxId in such an array

\* ------------------------------------------------------ program constants
QUIZ_TIME == 15 * 60

NoUser == 0          \* tg.initDataUnsafe.user is absent
NULL   == -1         \* startTime = null, timerInterval = null

MsgNone       == "none"
MsgCompleted  == "already-completed"
MsgLoadFailed == "could-not-load"

VARIABLES
    tgUser,               \* tg.initDataUnsafe?.user?.id, NoUser if absent
    guestDraws,           \* Math.random() values drawn for guest identifiers
    now,                  \* Date.now(), seconds since the page was loaded
    screen,               \* the screen carrying the class "active"
    errorMessage,         \* textContent of #error-message
    initPc,               \* position of init(): sleep, check, answered, welcome, blocked
    checkUserId,          \* userId of init()
    checkResponse,        \* what the await of the pre-check gave init()
    storedAtCheck,        \* the store held a record of checkUserId when it answered
    pendingStarts,        \* startQuiz invocations awaiting the catalog
    shuffleArg,           \* the array last handed to shuffleArray
    allQuestions,
    currentQuestionIndex,
    userAnswers,
    startTime,
    timerInterval,        \* id of the last setInterval
    timers,               \* ids of the intervals that are scheduled
    nextTimer,            \* id the next setInterval returns
    timeRemaining,
    currentTopic,         \* textContent of #current-topic
    optionButtons,        \* buttons in #options-container
    finishCount,          \* finishQuiz invocations of the session
    pendingFinish,        \* finishQuiz invocations awaiting the POST
    questionsAnswered,    \* textContent of #questions-answered
    timeSpentText,        \* textContent of #time-spent
    store                 \* the Result Store: one entry per persisted record

vars == <<tgUser, guestDraws, now, screen, errorMessage, initPc, checkUserId,
          checkResponse, storedAtCheck, pendingStarts, shuffleArg,
          allQuestions,
          currentQuestionIndex, userAnswers, startTime, timerInterval, timers,
          nextTimer, timeRemaining, currentTopic, optionButtons, finishCount,
          pendingFinish, questionsAnswered, timeSpentText, store>>

quizVars == <<shuffleArg, allQuestions, currentQuestionIndex, userAnswers, startTime,
              timerInterval, timers, nextTimer, timeRemaining, currentTopic,
              optionButtons, finishCount, pendingFinish, questionsAnswered,
              timeSpentText>>

initVars == <<initPc, checkUserId, checkResponse, storedAtCheck>>

Min(a, b) == IF a < b THEN a ELSE b

\* ------------------------------------------------------------- the catalog
\* the catalog of the model: a question is its id and its option strings
Catalog == [statistics  |-> <<[id |-> 1, options |-> <<"a", "b">>]>>,
            probability |-> <<>>,
            ml          |-> <<[id |-> 7, options |-> <<"a">>]>>]

\* GET /data/questions: the parsed file, or status 500 with {error: ...},
\* a body without the three pools
QuestionsResponses ==
    { [kind |-> "json", data |-> Catalog],
      [kind |-> "error500"] }

\* --------------------------------------------------------------- helpers
\* tg.initDataUnsafe?.user?.id || 'test_user_' + Math.random(): the value
\* drawn is named by its number; no two draws return the same value
UserId(user, draw) ==
    IF user # NoUser THEN <<"id", user>> ELSE <<"test_user_", draw>>

\* Math.random() is called only when the platform supplies no user
DrawsAfter(user, draws) == IF user # NoUser THEN draws ELSE draws + 1

Username(user) == IF user # NoUser THEN "user" ELSE "Anonymous"

\* the random draws of one shuffle: j in 0..i for every i in 1..n-1
RandomDraws(n) == { f \in [1..(n - 1) -> 0..(n - 1)] : \A i \in 1..(n - 1) : f[i] <= i }

\* an exchange that only writes newArray[i]: newArray[j] keeps its value
Swap_Overwrite(s, a, b) == [s EXCEPT ![a] = s[b]]

\* [newArray[i], newArray[j]] = [newArray[j], newArray[i]]
Swap(s, a, b) == [s EXCEPT ![a] = s[b], ![b] = s[a]]

RECURSIVE ShuffleFrom(_, _, _)
ShuffleFrom(arr, i, draws) ==
    IF i > 0 THEN ShuffleFrom(Swap(arr, i + 1, draws[i] + 1), i - 1, draws)
             ELSE arr

shuffleArray(array, draws) == ShuffleFrom(array, Len(array) - 1, draws)

\* getTopicName() with < in place of <=: ids 3 and 6 fall into the next topic
getTopicName_Strict(id) ==
    IF id < 3 THEN "statistics"
    ELSE IF id < 6 THEN "probability"
    ELSE "ml"

getTopicName(id) ==
    IF id <= 3 THEN "statistics"
    ELSE IF id <= 6 THEN "probability"
    ELSE "ml"

FormatTime(t) == <<t \div 60, t % 60>>

\* ------------------------------------------------------- the Result Store
Lookup(records, id) == \E i \in 1..Len(records) : records[i].telegram_user_id = id

StoreRecord(payload) == [telegram_user_id |-> payload.telegram_user_id]

\* ------------------------------------------------------------------- Init
FreshPage ==
    /\ now = 0
    /\ screen = "loading"
    /\ errorMessage = MsgNone
    /\ initPc = "sleep"
    /\ checkUserId = <<"none", 0>>
    /\ checkResponse = [kind |-> "none", completed |-> FALSE]
    /\ storedAtCheck = FALSE
    /\ pendingStarts = 0
    /\ allQuestions = <<>>
    /\ currentQuestionIndex = 0
    /\ userAnswers = <<>>
    /\ startTime = NULL
    /\ timerInterval = NULL
    /\ timers = {}
    /\ nextTimer = 1
    /\ timeRemaining = QUIZ_TIME
    /\ currentTopic = ""
    /\ optionButtons = <<>>
    /\ finishCount = 0
    /\ pendingFinish = <<>>
    /\ questionsAnswered = <<0, 0>>
    /\ timeSpentText = <<0, 0>>

\* the first page load of a user the platform names, on an empty store
Init ==
    /\ tgUser \in {1}
    /\ guestDraws = 0
    /\ store = <<>>
    /\ shuffleArg = <<>>
    /\ FreshPage

\* the first page load of a guest: the platform supplies no user
GuestInit ==
    /\ tgUser = NoUser
    /\ guestDraws = 0
    /\ store = <<>>
    /\ shuffleArg = <<>>
    /\ FreshPage

\* ------------------------------------------------------------------ init()
NoResponse == [kind |-> "none", completed |-> FALSE]

\* GET check-user: the answer of the Result Store, or no usable answer
\* (the request is rejected, or the body is not JSON)
CheckUserResponses(records, id) ==
    { [kind |-> "json", completed |-> Lookup(records, id)],
      [kind |-> "failed", completed |-> FALSE] }

\* init() without the return of line 61: showScreen('welcome') runs too
AfterCheck_NoReturn(resp) ==
    IF resp.kind = "json" /\ resp.completed
    THEN [screen |-> "welcome", message |-> MsgCompleted, pc |-> "welcome"]
    ELSE [screen |-> "welcome", message |-> MsgNone, pc |-> "welcome"]

\* init() reading a field the answer does not have: completed is never seen
AfterCheck_WrongField(resp) ==
    [screen |-> "welcome", message |-> MsgNone, pc |-> "welcome"]

\* init() whose catch block shows the error screen
AfterCheck_FatalFailure(resp) ==
    IF resp.kind = "json" /\ resp.completed
    THEN [screen |-> "error", message |-> MsgCompleted, pc |-> "blocked"]
    ELSE IF resp.kind = "json"
    THEN [screen |-> "welcome", message |-> MsgNone, pc |-> "welcome"]
    ELSE [screen |-> "error", message |-> MsgNone, pc |-> "blocked"]

\* lines 57-68 of init(): the branch taken on the outcome of the pre-check
AfterCheck(resp) ==
    IF resp.kind = "json" /\ resp.completed
    THEN [screen |-> "error", message |-> MsgCompleted, pc |-> "blocked"]
    ELSE [screen |-> "welcome", message |-> MsgNone, pc |-> "welcome"]

\* await sleep(1500) is over: userId is computed and the pre-check is sent
InitSleepDone ==
    /\ initPc = "sleep"
    /\ checkUserId' = UserId(tgUser, guestDraws + 1)
    /\ guestDraws' = DrawsAfter(tgUser, guestDraws)
    /\ initPc' = "check"
    /\ UNCHANGED <<tgUser, now, screen, errorMessage, checkResponse,
                   storedAtCheck, pendingStarts, store>>
    /\ UNCHANGED quizVars

\* the pre-check settles: init() resumes with the answer, or in its catch
InitCheckAnswered ==
    /\ initPc = "check"
    /\ checkResponse' \in CheckUserResponses(store, checkUserId)
    /\ storedAtCheck' = Lookup(store, checkUserId)
    /\ initPc' = "answered"
    /\ UNCHANGED <<tgUser, guestDraws, now, screen, errorMessage,
                   checkUserId, pendingStarts, store>>
    /\ UNCHANGED quizVars

\* init() runs to its end, and its locals are gone
InitCheckBranch ==
    /\ initPc = "answered"
    /\ LET a == AfterCheck(checkResponse) IN
         /\ screen' = a.screen
         /\ errorMessage' = a.message
         /\ initPc' = a.pc
    /\ checkResponse' = NoResponse
    /\ storedAtCheck' = FALSE
    /\ UNCHANGED <<tgUser, guestDraws, now, checkUserId,
                   pendingStarts, store>>
    /\ UNCHANGED quizVars

\* ------------------------------------------------------------- startQuiz()
\* click on start-btn, which is on the welcome screen: startQuiz() runs up
\* to its first await.  The welcome screen stays active until a catalog
\* fetch settles, so every click before that starts another invocation.
StartClick ==
    /\ screen = "welcome"
    /\ pendingStarts < MaxStarts
    /\ pendingStarts' = pendingStarts + 1
    /\ UNCHANGED <<tgUser, guestDraws, now, screen, errorMessage, store>>
    /\ UNCHANGED initVars
    /\ UNCHANGED quizVars

\* the catch block of startQuiz()
StartQuizCatch ==
    /\ screen' = "error"
    /\ errorMessage' = MsgLoadFailed

\* lines 91-93 of startQuiz(): what a start resets
ResetAttempt ==
    /\ startTime' = now
    /\ currentQuestionIndex' = 0
    /\ userAnswers' = <<>>

\* startTimer(): a new interval; its id replaces timerInterval
startTimer ==
    /\ timerInterval' = nextTimer
    /\ timers' = timers \cup {nextTimer}
    /\ nextTimer' = nextTimer + 1

\* the catalog arrived: lines 85-97, and the catch block should
\* displayQuestion() throw on allQuestions[0] being undefined
StartQuizLoaded(data) ==
    LET pool == data.statistics \o data.probability \o data.ml IN
    /\ shuffleArg' = pool
    /\ \E draws \in RandomDraws(Len(pool)) :
         allQuestions' = shuffleArray(pool, draws)
    /\ ResetAttempt
    /\ startTimer
    /\ IF Len(pool) > 0
       THEN /\ screen' = "quiz"
            /\ currentTopic' = getTopicName(allQuestions'[1].id)
            /\ optionButtons' = allQuestions'[1].options
            /\ UNCHANGED errorMessage
       ELSE /\ StartQuizCatch
            /\ UNCHANGED <<currentTopic, optionButtons>>
    /\ UNCHANGED <<timeRemaining, finishCount, pendingFinish,
                   questionsAnswered, timeSpentText>>

\* the fetch of the catalog settles and startQuiz() runs to its end: on a
\* body with the pools it goes on, on a body without them the spread throws,
\* on a rejection the await throws
StartQuizReturn ==
    /\ pendingStarts > 0
    /\ pendingStarts' = pendingStarts - 1
    /\ \/ \E resp \in QuestionsResponses :
            IF resp.kind = "json"
            THEN StartQuizLoaded(resp.data)
            ELSE StartQuizCatch /\ UNCHANGED quizVars
       \/ StartQuizCatch /\ UNCHANGED quizVars
    /\ UNCHANGED <<tgUser, guestDraws, now, store>>
    /\ UNCHANGED initVars

\* ------------------------------------------------------------ finishQuiz()
\* the body of the POST, built from the state at the call
Payload(userId, answers, timeSpent) ==
    [telegram_user_id |-> userId,
     username         |-> Username(tgUser),
     answers          |-> answers,
     time_spent       |-> timeSpent,
     questions        |-> [i \in 1..Len(allQuestions) |-> allQuestions[i].id]]

\* finishQuiz() up to its await, called with the intervals `active` still
\* scheduled, at time endTime, with the answers given so far: the interval
\* named by timerInterval is cleared and the POST is sent
finishQuiz(active, endTime, answers) ==
    LET timeSpent == endTime - startTime IN
    /\ finishCount < MaxFinish
    /\ timers' = active \ {timerInterval}
    /\ finishCount' = finishCount + 1
    /\ guestDraws' = DrawsAfter(tgUser, guestDraws)
    /\ pendingFinish' = Append(pendingFinish,
          [timeSpent |-> timeSpent,
           payload   |-> Payload(UserId(tgUser, guestDraws + 1), answers,
                                 timeSpent)])

\* ---------------------------------------------------------- selectAnswer()
selectAnswer(answerIndex) ==
    /\ userAnswers' = Append(userAnswers, answerIndex)
    /\ currentQuestionIndex' = currentQuestionIndex + 1
    /\ IF currentQuestionIndex + 1 < Len(allQuestions)
       THEN /\ currentTopic' = getTopicName(allQuestions[currentQuestionIndex + 2].id)
            /\ optionButtons' = allQuestions[currentQuestionIndex + 2].options
            /\ UNCHANGED <<timers, finishCount, pendingFinish, guestDraws>>
       ELSE /\ finishQuiz(timers, now, Append(userAnswers, answerIndex))
            /\ UNCHANGED <<currentTopic, optionButtons>>

\* click on one of the option buttons of the quiz screen
SelectAnswer ==
    /\ screen = "quiz"
    /\ \E answerIndex \in 0..(Len(optionButtons) - 1) : selectAnswer(answerIndex)
    /\ UNCHANGED <<tgUser, now, screen, errorMessage, pendingStarts, shuffleArg,
                   allQuestions, startTime, timerInterval, nextTimer,
                   timeRemaining, questionsAnswered, timeSpentText, store>>
    /\ UNCHANGED initVars

\* ------------------------------------------------------------ the countdown
\* the callback of interval t runs k times, one second apart
Tick(t) ==
    LET k == IF timeRemaining > 0 THEN Min(TickBatch, timeRemaining) ELSE 1 IN
    /\ t \in timers
    /\ timeRemaining' = timeRemaining - k
    /\ now' = now + k
    /\ IF timeRemaining - k <= 0
       THEN finishQuiz(timers \ {timerInterval}, now + k, userAnswers)
       ELSE UNCHANGED <<timers, finishCount, pendingFinish, guestDraws>>
    /\ UNCHANGED <<tgUser, screen, errorMessage, pendingStarts, shuffleArg,
                   allQuestions, currentQuestionIndex, userAnswers, startTime,
                   timerInterval, nextTimer, currentTopic, optionButtons,
                   questionsAnswered, timeSpentText, store>>
    /\ UNCHANGED initVars

\* one of the scheduled intervals fires
Countdown == \E t \in timers : Tick(t)

\* ------------------------------------------------------------- POST submit
\* submit(record): the Result Store appends the record
Submit(records, payload) == Append(records, StoreRecord(payload))

Remove(s, i) == [j \in 1..(Len(s) - 1) |-> IF j < i THEN s[j] ELSE s[j + 1]]

\* lines 204-213 of finishQuiz(): the final screen and its two counters
ShowFinal(timeSpent) ==
    /\ screen' = "final"
    /\ questionsAnswered' = <<Len(userAnswers), Len(allQuestions)>>
    /\ timeSpentText' = FormatTime(timeSpent)

\* finishQuiz() without its try/catch: a rejected POST ends the function
AfterSubmit_NoCatch(resolved, timeSpent) ==
    IF resolved THEN ShowFinal(timeSpent)
                ELSE UNCHANGED <<screen, questionsAnswered, timeSpentText>>

\* lines 188-213 of finishQuiz(): after the await the final screen is shown,
\* whether the POST resolved or the catch block logged its rejection
AfterSubmit(resolved, timeSpent) == ShowFinal(timeSpent)

\* the POST of invocation i settles and finishQuiz() runs to its end; the
\* request either reached the store or was lost on the way
FinishReturn(i) ==
    /\ i \in 1..Len(pendingFinish)
    /\ \E delivered \in BOOLEAN, resolved \in BOOLEAN :
         /\ resolved => delivered
         /\ store' = IF delivered THEN Submit(store, pendingFinish[i].payload)
                                  ELSE store
         /\ AfterSubmit(resolved, pendingFinish[i].timeSpent)
    /\ pendingFinish' = Remove(pendingFinish, i)
    /\ UNCHANGED <<tgUser, guestDraws, now, errorMessage, pendingStarts, shuffleArg,
                   allQuestions, currentQuestionIndex, userAnswers, startTime,
                   timerInterval, timers, nextTimer, timeRemaining,
                   currentTopic, optionButtons, finishCount>>
    /\ UNCHANGED initVars

\* one of the pending submissions settles
SubmitSettles == \E i \in 1..Len(pendingFinish) : FinishReturn(i)

\* ------------------------------------------------------------------ reload
\* the same user opens the page again: the script runs from its first
\* line, the requests and intervals of the old page are gone, the store stays
Reload ==
    /\ Len(store) < MaxStored
    /\ tgUser' = tgUser
    /\ guestDraws' = guestDraws
    /\ store' = store
    /\ now' = 0
    /\ screen' = "loading"
    /\ errorMessage' = MsgNone
    /\ initPc' = "sleep"
    /\ checkUserId' = <<"none", 0>>
    /\ checkResponse' = NoResponse
    /\ storedAtCheck' = FALSE
    /\ pendingStarts' = 0
    /\ shuffleArg' = <<>>
    /\ allQuestions' = <<>>
    /\ currentQuestionIndex' = 0
    /\ userAnswers' = <<>>
    /\ startTime' = NULL
    /\ timerInterval' = NULL
    /\ timers' = {}
    /\ nextTimer' = 1
    /\ timeRemaining' = QUIZ_TIME
    /\ currentTopic' = ""
    /\ optionButtons' = <<>>
    /\ finishCount' = 0
    /\ pendingFinish' = <<>>
    /\ questionsAnswered' = <<0, 0>>
    /\ timeSpentText' = <<0, 0>>

Next ==
    \/ InitSleepDone
    \/ InitCheckAnswered
    \/ InitCheckBranch
    \/ StartClick
    \/ StartQuizReturn
    \/ SelectAnswer
    \/ Countdown
    \/ SubmitSettles
    \/ Reload

Spec == Init /\ [][Next]_vars

\* one page that is never reloaded
NextPage ==
    \/ InitSleepDone
    \/ InitCheckAnswered
    \/ InitCheckBranch
    \/ StartClick
    \/ StartQuizReturn
    \/ SelectAnswer
    \/ Countdown
    \/ SubmitSettles

\* a fetch settles: the POST of finishQuiz() is answered or rejected in the
\* end, so a pending finishQuiz() of a page that stays open gets to run its
\* continuation
FairSpec == Init /\ [][NextPage]_vars /\ WF_vars(SubmitSettles)

\* the page of a guest
GuestSpec == GuestInit /\ [][NextPage]_vars

\* ------------------------------------------- the question list on its own
\* startQuiz's shuffle and displayQuestion's topic label, for any array of
\* questions: identifiers from 1..MaxId, repeated or not, up to MaxLen long
Questions == { [id |-> n, options |-> <<"a">>] : n \in 1..MaxId }

Arrays == UNION { [1..n -> Questions] : n \in 0..MaxLen }

ShuffleInit ==
    /\ tgUser = 1
    /\ guestDraws = 0
    /\ store = <<>>
    /\ shuffleArg \in Arrays
    /\ FreshPage

\* lines 85-89 of startQuiz(): allQuestions = shuffleArray([...])
ShuffleQuestions ==
    /\ allQuestions = <<>>
    /\ \E draws \in RandomDraws(Len(shuffleArg)) :
         allQuestions' = shuffleArray(shuffleArg, draws)
    /\ UNCHANGED <<tgUser, guestDraws, now, screen, errorMessage, pendingStarts,
                   shuffleArg, currentQuestionIndex, userAnswers, startTime,
                   timerInterval, timers, nextTimer, timeRemaining, currentTopic,
                   optionButtons, finishCount, pendingFinish, questionsAnswered,
                   timeSpentText, store>>
    /\ UNCHANGED initVars

\* displayQuestion() with the index at any position of the list
DisplayQuestionAt ==
    /\ \E position \in 0..(Len(allQuestions) - 1) :
         /\ currentQuestionIndex' = position
         /\ currentTopic' = getTopicName(allQuestions[position + 1].id)
         /\ optionButtons' = allQuestions[position + 1].options
    /\ UNCHANGED <<tgUser, guestDraws, now, screen, errorMessage, pendingStarts,
                   shuffleArg, allQuestions, userAnswers, startTime,
                   timerInterval, timers, nextTimer, timeRemaining, finishCount,
                   pendingFinish, questionsAnswered, timeSpentText, store>>
    /\ UNCHANGED initVars

ShuffleNext ==
    \/ ShuffleQuestions
    \/ DisplayQuestionAt

ShuffleSpec == ShuffleInit /\ [][ShuffleNext]_vars

\* ===================================================================
\* Properties
\* ===================================================================

\* C1: when the pre-check answers completed: true, init() shows the error
\* screen with the already-completed message, and for the rest of the
\* session no catalog is fetched, no countdown is started and the quiz
\* screen is never active.
C1_CompletedNeverStarts ==
    /\ [][(/\ InitCheckBranch
           /\ checkResponse.kind = "json"
           /\ checkResponse.completed)
          => initPc' = "blocked"]_vars
    /\ [](initPc = "blocked" =>
            /\ screen = "error"
            /\ errorMessage = MsgCompleted
            /\ pendingStarts = 0
            /\ allQuestions = <<>>
            /\ nextTimer = 1
            /\ timers = {}
            /\ startTime = NULL)

C1_Witness ==
    /\ initPc = "blocked"
    /\ screen = "error"
    /\ errorMessage = MsgCompleted
    /\ Lookup(store, checkUserId)

\* C2 as stated: once a record of a user identifier is stored, every later
\* pre-check for that identifier answers completed: true and the session
\* is kept out of the quiz.
C2_Original ==
    [][InitCheckBranch /\ storedAtCheck =>
          /\ checkResponse.kind = "json"
          /\ checkResponse.completed
          /\ initPc' = "blocked"]_vars

\* C2 as amended: a stored record stays stored, so every later pre-check
\* for its identifier that is answered says completed: true, and a session
\* with such an answer never fetches the catalog, never starts the
\* countdown and never shows the quiz; a pre-check that fails lets the
\* session proceed.
C2_StoredAnswerBlocks ==
    /\ [][/\ Len(store') >= Len(store)
          /\ SubSeq(store', 1, Len(store)) = store]_vars
    /\ [][InitCheckBranch /\ storedAtCheck /\ checkResponse.kind # "failed" =>
            /\ checkResponse.completed
            /\ initPc' = "blocked"
            /\ screen' = "error"]_vars
    /\ [](initPc = "blocked" => screen # "quiz" /\ pendingStarts = 0 /\ nextTimer = 1)

C2_Witness ==
    /\ initPc = "answered"
    /\ storedAtCheck
    /\ checkResponse.kind = "json"
    /\ checkResponse.completed

\* C3: when a catalog fetch of startQuiz fails (rejection or unusable
\* response) the error screen carries the could-not-load message, and in
\* that session the quiz screen is never shown and no countdown is ever
\* started.  The could-not-load message is set by the catch block only.
C3_FetchFailureNeverStarts ==
    errorMessage = MsgLoadFailed =>
        /\ screen = "error"
        /\ nextTimer = 1
        /\ timers = {}

\* C4: once finishQuiz has been called (by the last answer or by the
\* countdown) the final screen is shown in the end, and every settling of
\* the POST, answered or rejected, puts the final screen up at once: none
\* leaves the quiz screen active.
C4_FinishShowsFinal ==
    /\ (pendingFinish # <<>>) ~> (screen = "final")
    /\ [][Len(pendingFinish') < Len(pendingFinish) => screen' = "final"]_vars

\* a finishQuiz whose POST did not reach the store has shown the final screen
C4_Witness ==
    /\ finishCount = 1
    /\ pendingFinish = <<>>
    /\ store = <<>>
    /\ screen = "final"

\* C5: a pre-check that fails (rejection, or a body that is not JSON) ends
\* init() on the welcome screen, never on the error screen.
C5_FailedCheckShowsWelcome ==
    [][InitCheckBranch /\ checkResponse.kind = "failed" =>
          /\ screen' = "welcome"
          /\ errorMessage' = MsgNone
          /\ initPc' = "welcome"]_vars

\* init() has ended on the welcome screen although the store holds a
\* record of the user: only a failed pre-check leads there
C5_Witness ==
    /\ initPc = "welcome"
    /\ screen = "welcome"
    /\ errorMessage = MsgNone
    /\ Lookup(store, checkUserId)

\* C6: every step of startQuiz that starts the countdown and shows the quiz
\* leaves currentQuestionIndex = 0, userAnswers empty and timeRemaining at
\* QUIZ_TIME (900), whatever happened before.
C6_StartResets ==
    [][nextTimer' > nextTimer /\ screen' = "quiz" =>
          /\ currentQuestionIndex' = 0
          /\ userAnswers' = <<>>
          /\ timeRemaining' = QUIZ_TIME]_vars

\* C7: a selectAnswer call appends exactly one entry and advances the index
\* by exactly one, and it calls finishQuiz exactly when the index reaches
\* allQuestions.length, so completion by answers is triggered once.
C7_SelectAdvancesFinishOnce ==
    [][Len(userAnswers') > Len(userAnswers) =>
          /\ Len(userAnswers') = Len(userAnswers) + 1
          /\ currentQuestionIndex' = currentQuestionIndex + 1
          /\ (finishCount' # finishCount <=>
                currentQuestionIndex' = Len(allQuestions))]_vars

\* C8: the tick that brings the countdown to zero calls finishQuiz exactly
\* once and leaves no interval scheduled, and no tick occurs once the
\* countdown is at zero.
C8_TimeoutFinishesOnceAndStops ==
    [][/\ (timeRemaining' < timeRemaining => timeRemaining > 0)
       /\ (timeRemaining > 0 /\ timeRemaining' <= 0 =>
             /\ finishCount' = finishCount + 1
             /\ timers' = {})]_vars

\* C9: when finishQuiz was called with every question answered and no
\* answer was selected after that, the final screen shows N/N and an
\* elapsed time of at most QUIZ_TIME seconds (15:00).
C9_AllAnsweredShowsAll ==
    [][\A i \in 1..Len(pendingFinish) :
          LET p == pendingFinish[i].payload
              n == Len(p.questions) IN
          (/\ pendingFinish' = Remove(pendingFinish, i)
           /\ screen' = "final"
           /\ n > 0
           /\ Len(p.answers) = n
           /\ Len(userAnswers) <= n)
          => /\ questionsAnswered' = <<n, n>>
             /\ timeSpentText'[1] * 60 + timeSpentText'[2] <= QUIZ_TIME]_vars

\* C10: the Result Store holds at most one record per user identifier.
C10_OneRecordPerUser ==
    \A i, j \in 1..Len(store) :
        store[i].telegram_user_id = store[j].telegram_user_id => i = j

Count(x, s) == Cardinality({i \in 1..Len(s) : s[i] = x})

IsPermutation(a, b) ==
    /\ Len(a) = Len(b)
    /\ \A i \in 1..Len(b) : Count(b[i], a) = Count(b[i], b)

\* C11: for every array and every outcome of the random draws shuffleArray
\* returns a sequence of the same length with the same multiset of
\* elements (stated where the array is about to be shuffled), and the
\* allQuestions it is assigned to is such a permutation of the array
\* handed in.
C11_ShufflePermutes ==
    /\ allQuestions = <<>> =>
          \A draws \in RandomDraws(Len(shuffleArg)) :
              IsPermutation(shuffleArray(shuffleArg, draws), shuffleArg)
    /\ allQuestions # <<>> => IsPermutation(allQuestions, shuffleArg)

\* a list with a repeated question has been shuffled into another order
C11_Witness ==
    /\ Len(shuffleArg) = 3
    /\ shuffleArg[1] = shuffleArg[2]
    /\ allQuestions # <<>>
    /\ allQuestions # shuffleArg

\* C12: getTopicName gives every identifier one topic, statistics for 1..3,
\* probability for 4..6 and ml from 7 on, and the topic displayQuestion
\* shows is that of the identifier of the question at the index, wherever
\* the shuffle has put the question.
C12_TopicByIdentifier ==
    /\ \A id \in 1..MaxId :
          /\ id \in 1..3 => getTopicName(id) = "statistics"
          /\ id \in 4..6 => getTopicName(id) = "probability"
          /\ id >= 7 => getTopicName(id) = "ml"
    /\ currentTopic # "" =>
          LET id == allQuestions[currentQuestionIndex + 1].id IN
          currentTopic = IF id <= 3 THEN "statistics"
                         ELSE IF id <= 6 THEN "probability"
                         ELSE "ml"

\* a question of the third pool is displayed at a position the shuffle
\* moved it to, behind a question of the first pool
C12_Witness ==
    /\ currentTopic = "ml"
    /\ currentQuestionIndex > 0
    /\ allQuestions[1].id <= 3
    /\ allQuestions # shuffleArg

\* C13: within one attempt (one startQuiz that got to startTimer) finishQuiz
\* starts at most once, so at most one POST is sent for it.
C13_NoDoubleFinish ==
    nextTimer <= 2 => finishCount <= 1

\* C14: once the final screen or the error screen is active, no later step
\* of the page makes another screen active.
C14_TerminalScreens ==
    [][(screen \in {"final", "error"} /\ ~Reload) => screen' = screen]_vars

\* C15: userAnswers has exactly currentQuestionIndex entries and no more
\* than allQuestions has questions, and in every payload handed to the POST
\* answers is no longer than questions.
C15_AnswersWithinQuestions ==
    /\ Len(userAnswers) = currentQuestionIndex
    /\ Len(userAnswers) <= Len(allQuestions)
    /\ \A i \in 1..Len(pendingFinish) :
          Len(pendingFinish[i].payload.answers) <=
              Len(pendingFinish[i].payload.questions)

\* C16: the telegram_user_id of every submission of a session is the
\* identifier that session's pre-check was made for, for a platform user
\* and for a guest alike.
C16_SameIdentifier ==
    \A i \in 1..Len(pendingFinish) :
        pendingFinish[i].payload.telegram_user_id = checkUserId

\* C17: timeRemaining is within 0..QUIZ_TIME in every reachable state: the
\* countdown never goes below zero.
C17_CountdownInRange ==
    timeRemaining \in 0..QUIZ_TIME

\* C18: when a finishQuiz shows the final screen, the answered count on it
\* is the number of answers in the payload that finishQuiz has sent.
C18_CountMatchesPayload ==
    [][\A i \in 1..Len(pendingFinish) :
          (/\ pendingFinish' = Remove(pendingFinish, i)
           /\ screen' = "final")
          => questionsAnswered'[1] = Len(pendingFinish[i].payload.answers)]_vars

====
